---- MODULE Spec2Model ----
(***************************************************************************)
(* A model of cogs/pokemon.py: the numeric-flag parser, the flag-to-filter *)
(* compiler (create_filter), the commands that use it (pokemon,            *)
(* releaseall) and the confirmation-gated commands (release, releaseall)   *)
(* running as interleaved coroutines against one member document.          *)
(***************************************************************************)
EXTENDS Integers, Sequences, FiniteSets, TLC

VARIABLES
    text,       \* parse_numerical_flag: the token sequence handed to the parser
    ops,        \* parse_numerical_flag: what the call produced
    doc,        \* the author's member document in the database
    task        \* the command coroutines: position and local variables of each

parseVars == <<text, ops>>
botVars == <<doc, task>>
vars == <<text, ops, doc, task>>

(***************************************************************************)
(* Bounds of the model.                                                    *)
(***************************************************************************)
MaxTokLen == 2      \* characters in one token
MaxTokens == 3      \* tokens in one flag value
MaxSessions == 2    \* command coroutines of the author alive at once
MaxNextId == 4      \* redeem stops once next_id has reached this
MaxNumFlags == 2    \* numerical flags (the first of the table) a command is given
MaxBoxed == 41      \* entries of the collections that are paged
MaxPage == 4        \* the page argument of the pokemon command

(***************************************************************************)
(* Python strings. A token is a sequence of characters. str.isdigit() is   *)
(* true of a non-empty string all of whose characters have the Unicode     *)
(* property Digit; that covers the decimal digits and also characters such *)
(* as SUPERSCRIPT TWO, which int() does not accept.                        *)
(***************************************************************************)
DecimalChars == {"1"}
SuperscriptChars == {"sup2"}
OperatorChars == {"<", "=", ">"}
LetterChars == {"a"}
Chars == DecimalChars \cup SuperscriptChars \cup OperatorChars \cup LetterChars

IsDigitChar(c) == c \in DecimalChars \cup SuperscriptChars

\* str.isdigit()
IsDigit(s) == Len(s) > 0 /\ \A i \in 1..Len(s) : IsDigitChar(s[i])

\* what int() accepts among the strings the model builds
IsDecimal(s) == Len(s) > 0 /\ \A i \in 1..Len(s) : s[i] \in DecimalChars

DigitValue(c) == IF c = "1" THEN 1 ELSE 0

RECURSIVE ToInt(_)
\* int(s) of a decimal string (int() raises ValueError on any other)
ToInt(s) ==
    IF Len(s) = 0 THEN 0
    ELSE 10 * ToInt(SubSeq(s, 1, Len(s) - 1)) + DigitValue(s[Len(s)])

Str(c) == <<c>>

TokensOfLen(n) == [1..n -> Chars]
Tokens == UNION {TokensOfLen(n) : n \in 0..MaxTokLen}
ShortTokens == UNION {TokensOfLen(n) : n \in 0..1}

\* The flag values the parser is exercised on: every sequence of up to two
\* tokens, and longer sequences of short tokens.
Texts ==
    UNION {[1..n -> Tokens] : n \in 0..2}
    \cup UNION {[1..n -> ShortTokens] : n \in 3..MaxTokens}

(***************************************************************************)
(* parse_numerical_flag. The result is None, the pair [operator, operand]  *)
(* of strings, or the exception the call raises.                           *)
(***************************************************************************)
None == [tag |-> "None"]
IndexError == [tag |-> "IndexError"]
ValueError == [tag |-> "ValueError"]
Ops(o) == [tag |-> "Ops", op |-> o[1], operand |-> o[2]]

ComparisonOps == {Str("<"), Str("="), Str(">")}

\* line 343: text[0][0] of an empty token raises IndexError
SplitRaises(t) == Len(t) = 1 /\ ~IsDigit(t[1]) /\ Len(t[1]) = 0

\* lines 338-344: the list the shape of the text selects
SplitOps(t) ==
    IF Len(t) = 1 /\ IsDigit(t[1]) THEN <<Str("="), t[1]>>
    ELSE IF Len(t) = 1 /\ ~IsDigitChar(t[1][1])
        THEN <<Str(t[1][1]), SubSeq(t[1], 2, Len(t[1]))>>
    ELSE t

\* line 346: the validity test, evaluated left to right
OpsInvalid(o) ==
    \/ o[1] \notin ComparisonOps
    \/ ~IsDigit(o[2])

parse_numerical_flag(t) ==
    IF ~(1 <= Len(t) /\ Len(t) <= 2) THEN None
    ELSE IF SplitRaises(t) THEN IndexError
    ELSE IF OpsInvalid(SplitOps(t)) THEN None
    ELSE Ops(SplitOps(t))

(***************************************************************************)
(* The species catalog (helpers.models.GameData) and the table of          *)
(* numerical flags (helpers.constants.FILTER_BY_NUMERICAL).                *)
(***************************************************************************)
SpeciesNames == <<"mew", "lugia", "nihilego", "bulbasaur">>
list_mythical == {1}
list_legendary == {2}
list_ub == {3}
list_type(t) ==
    IF t = "psychic" THEN {1, 2}
    ELSE IF t = "grass" THEN {4}
    ELSE {}

SpeciesFound(name) == \E i \in 1..Len(SpeciesNames) : SpeciesNames[i] = name
\* GameData.species_by_name(name).id, when the name is in the catalog
species_by_name(name) == CHOOSE i \in 1..Len(SpeciesNames) : SpeciesNames[i] = name

FILTER_BY_NUMERICAL == <<"hpiv", "atkiv", "defiv", "spatkiv", "spdefiv", "spdiv", "iv">>

(***************************************************************************)
(* Flags. An optional value is <<>> (None) or <<v>>. The pokemon command   *)
(* declares every flag; releaseall declares name, type and the numerical   *)
(* flags only (lines 489-497, 564-580).                                    *)
(***************************************************************************)
NoValue == <<>>
Some(v) == <<v>>

\* truth value of an optional string: None and "" are false
Truthy(v) == v # NoValue /\ v[1] # ""

(***************************************************************************)
(* Aggregation stages.                                                     *)
(***************************************************************************)
Stage(o, f, c, i, k, t) == [op |-> o, field |-> f, cmp |-> c, ids |-> i, n |-> k, b |-> t]
MatchIn(f, i) == Stage("$match", f, "$in", i, 0, FALSE)
MatchNum(f, c, k) == Stage("$match", f, c, {}, k, FALSE)
MatchBool(f, c, t) == Stage("$match", f, c, {}, 0, t)
AddFields(f) == Stage("$addFields", f, "expr", {}, 0, FALSE)
SortStage(f) == Stage("$sort", f, "asc", {}, 1, FALSE)

(***************************************************************************)
(* create_filter. The result is a stage list, None (after a message to the *)
(* user) or the exception that leaves the call.                            *)
(***************************************************************************)
StageList(st) == [tag |-> "List", stages |-> st, sent |-> "", flag |-> ""]
Rejected(m, f) == [tag |-> "None", stages |-> <<>>, sent |-> m, flag |-> f]
Raised(e) == [tag |-> e.tag, stages |-> <<>>, sent |-> "", flag |-> ""]

\* IsSet without the test of the value: a flag that is present counts as set
IsSetPresent(flags, f) == f \in DOMAIN flags

IsSet(flags, f) == f \in DOMAIN flags /\ flags[f]
IsGiven(flags, f) == f \in DOMAIN flags /\ flags[f] # NoValue

\* RarityStages with one stage for the union of the classes that are set
RarityStagesUnion(flags) ==
    LET ids == (IF IsSet(flags, "mythical") THEN list_mythical ELSE {})
               \cup (IF IsSet(flags, "legendary") THEN list_legendary ELSE {})
               \cup (IF IsSet(flags, "ub") THEN list_ub ELSE {})
    IN  IF ids = {} THEN <<>> ELSE <<MatchIn("pokemon.species_id", ids)>>

\* lines 354-367
RarityStages(flags) ==
    (IF IsSet(flags, "mythical")
        THEN <<MatchIn("pokemon.species_id", list_mythical)>> ELSE <<>>)
    \o (IF IsSet(flags, "legendary")
        THEN <<MatchIn("pokemon.species_id", list_legendary)>> ELSE <<>>)
    \o (IF IsSet(flags, "ub")
        THEN <<MatchIn("pokemon.species_id", list_ub)>> ELSE <<>>)

\* lines 369-376
TypeStages(flags) ==
    IF "type" \in DOMAIN flags /\ Truthy(flags["type"])
        THEN <<MatchIn("pokemon.species_id", list_type(flags["type"][1]))>>
        ELSE <<>>

\* lines 378-379
FavoriteStages(flags) ==
    IF IsSet(flags, "favorite")
        THEN <<MatchBool("pokemon.favorite", "$eq", TRUE)>> ELSE <<>>

\* line 388
NameStages(flags) ==
    IF IsGiven(flags, "name")
        THEN <<MatchNum("pokemon.species_id", "$eq", species_by_name(flags["name"][1]))>>
        ELSE <<>>

\* lines 390-391
LevelStages(flags) ==
    IF IsGiven(flags, "level")
        THEN <<MatchNum("pokemon.level", "$eq", flags["level"][1])>> ELSE <<>>

\* lines 403, 410, 417: the comparison a parsed operator selects
CmpOf(o) ==
    IF o = Str("<") THEN "$lt"
    ELSE IF o = Str("=") THEN "$eq"
    ELSE "$gt"

\* ComparisonStages with the match ahead of the field it reads
ComparisonStagesMatchFirst(flag, o) ==
    <<MatchNum(flag, CmpOf(o.op), ToInt(o.operand)), AddFields(flag)>>

\* lines 404-423: the two stages of one numerical flag
ComparisonStages(flag, o) ==
    <<AddFields(flag), MatchNum(flag, CmpOf(o.op), ToInt(o.operand))>>

RECURSIVE NumericalStages(_, _)
\* lines 395-423: the loop over FILTER_BY_NUMERICAL, from its i-th entry on
NumericalStages(flags, i) ==
    IF i > Len(FILTER_BY_NUMERICAL) THEN StageList(<<>>)
    ELSE LET flag == FILTER_BY_NUMERICAL[i] IN
         IF ~IsGiven(flags, flag) THEN NumericalStages(flags, i + 1)
         ELSE LET o == parse_numerical_flag(flags[flag][1]) IN
              IF o = IndexError THEN Raised(IndexError)
              ELSE IF o = None THEN Rejected("Couldn't parse", flag)
              ELSE IF ~IsDecimal(o.operand) THEN Raised(ValueError)
              ELSE LET rest == NumericalStages(flags, i + 1) IN
                   IF rest.tag # "List" THEN rest
                   ELSE StageList(ComparisonStages(flag, o) \o rest.stages)

\* create_filter going on without the name stage when the species is unknown
create_filter_skipping(flags) ==
    LET numerical == NumericalStages(flags, 1) IN
    IF numerical.tag # "List" THEN numerical
    ELSE StageList(RarityStages(flags) \o TypeStages(flags)
                   \o FavoriteStages(flags)
                   \o (IF IsGiven(flags, "name") /\ ~SpeciesFound(flags["name"][1])
                          THEN <<>> ELSE NameStages(flags))
                   \o LevelStages(flags) \o numerical.stages)

\* lines 351-425
create_filter(flags) ==
    IF IsGiven(flags, "name") /\ ~SpeciesFound(flags["name"][1])
        THEN Rejected("Couldn't find a pokemon species with that name.", "name")
    ELSE LET numerical == NumericalStages(flags, 1) IN
         IF numerical.tag # "List" THEN numerical
         ELSE StageList(RarityStages(flags) \o TypeStages(flags)
                        \o FavoriteStages(flags) \o NameStages(flags)
                        \o LevelStages(flags) \o numerical.stages)

(***************************************************************************)
(* The member document and the Database cog's queries on it. An entry of   *)
(* the pokemon array carries the fields the commands read and write.       *)
(***************************************************************************)
Entry(k, sp, lv, fav, hp, atk) ==
    [number |-> k, species_id |-> sp, level |-> lv, favorite |-> fav,
     iv_hp |-> hp, iv_atk |-> atk, iv_defn |-> 0, iv_satk |-> 0,
     iv_sdef |-> 0, iv_spd |-> 0]

\* FILTER_BY_NUMERICAL[flag]: the expression a numerical flag derives
Expr(flag, e) ==
    CASE flag = "hpiv" -> e.iv_hp
      [] flag = "atkiv" -> e.iv_atk
      [] flag = "defiv" -> e.iv_defn
      [] flag = "spatkiv" -> e.iv_satk
      [] flag = "spdefiv" -> e.iv_sdef
      [] flag = "spdiv" -> e.iv_spd
      [] OTHER -> e.iv_hp + e.iv_atk + e.iv_defn + e.iv_satk + e.iv_sdef + e.iv_spd

\* SORTING_FUNCTIONS[order_by]: the key the pokemon command sorts by
SortKey(order_by, e) ==
    CASE order_by = "number" -> e.number
      [] order_by = "level" -> 0 - e.level
      [] order_by = "pokedex" -> e.species_id
      [] OTHER -> 0 - Expr("iv", e)

\* One unwound document of the aggregation: the entry and the fields added.
Unwound(e) == [pokemon |-> e, added |-> {}, sorting |-> 0]

DocFields == {"pokemon.species_id", "pokemon.level", "pokemon.number", "pokemon.favorite"}

NumberOf(f, d) ==
    CASE f = "pokemon.species_id" -> d.pokemon.species_id
      [] f = "pokemon.level" -> d.pokemon.level
      [] f = "pokemon.number" -> d.pokemon.number
      [] OTHER -> Expr(f, d.pokemon)

\* $match of one stage on one document; a comparison with a field the
\* document lacks matches only under $not
Matches(st, d) ==
    IF st.field = "pokemon.favorite"
        THEN IF st.cmp = "$ne" THEN d.pokemon.favorite # st.b
             ELSE d.pokemon.favorite = st.b
    ELSE IF st.field \notin DocFields \cup d.added THEN st.cmp = "$ne"
    ELSE CASE st.cmp = "$in" -> NumberOf(st.field, d) \in st.ids
           [] st.cmp = "$eq" -> NumberOf(st.field, d) = st.n
           [] st.cmp = "$ne" -> NumberOf(st.field, d) # st.n
           [] st.cmp = "$lt" -> NumberOf(st.field, d) < st.n
           [] st.cmp = "$gt" -> NumberOf(st.field, d) > st.n
           [] OTHER -> FALSE

RECURSIVE InsertSorted(_, _)
InsertSorted(d, docs) ==
    IF docs = <<>> THEN <<d>>
    ELSE IF d.sorting < Head(docs).sorting THEN <<d>> \o docs
    ELSE <<Head(docs)>> \o InsertSorted(d, Tail(docs))

RECURSIVE SortDocs(_)
\* $sort: ascending by the sorting field, stable
SortDocs(docs) ==
    IF docs = <<>> THEN <<>>
    ELSE InsertSorted(docs[Len(docs)], SortDocs(SubSeq(docs, 1, Len(docs) - 1)))

ApplyStage(st, docs) ==
    CASE st.op = "$match" -> SelectSeq(docs, LAMBDA d : Matches(st, d))
      [] st.op = "$addFields" /\ st.field = "sorting" ->
            [i \in 1..Len(docs) |->
                [docs[i] EXCEPT !.sorting = SortKey(st.cmp, docs[i].pokemon)]]
      [] st.op = "$addFields" ->
            [i \in 1..Len(docs) |->
                [docs[i] EXCEPT !.added = docs[i].added \cup {st.field}]]
      [] OTHER -> SortDocs(docs)

RECURSIVE Aggregate(_, _)
\* the pipeline run stage by stage
Aggregate(stages, docs) ==
    IF stages = <<>> THEN docs
    ELSE Aggregate(Tail(stages), ApplyStage(Head(stages), docs))

UnwindAll(member) == [i \in 1..Len(member.pokemon) |-> Unwound(member.pokemon[i])]

\* Database.fetch_pokemon_count: num_matches, 0 standing for the empty result
fetch_pokemon_count(member, aggregations) ==
    Len(Aggregate(aggregations, UnwindAll(member)))

\* Database.fetch_pokemon_list: the entries of one window of the result
fetch_pokemon_list(member, skip, limit, aggregations) ==
    LET docs == Aggregate(aggregations, UnwindAll(member))
        last == IF skip + limit < Len(docs) THEN skip + limit ELSE Len(docs)
    IN  [i \in 1..(IF last > skip THEN last - skip ELSE 0) |-> docs[skip + i].pokemon]

\* Database.fetch_pokemon: the position of the entry with that number, the
\* last position for -1, 0 for None
fetch_pokemon(member, number) ==
    IF number = -1 THEN Len(member.pokemon)
    ELSE IF \E i \in 1..Len(member.pokemon) : member.pokemon[i].number = number
        THEN CHOOSE i \in 1..Len(member.pokemon) :
                /\ member.pokemon[i].number = number
                /\ \A j \in 1..(i - 1) : member.pokemon[j].number # number
    ELSE 0

\* update_member $pull {"pokemon": {"number": {"$in": numbers}}}
Pull(member, numbers) ==
    [member EXCEPT !.pokemon = SelectSeq(member.pokemon, LAMBDA e : e.number \notin numbers)]

\* update_pokemon $set {"pokemon.$.favorite": b} on the entry with that number
SetFavorite(member, number, b) ==
    LET i == fetch_pokemon(member, number) IN
    IF number = -1 \/ i = 0 THEN member
    ELSE [member EXCEPT !.pokemon[i].favorite = b]

(***************************************************************************)
(* Command coroutines. Each invocation of a command is one coroutine; it   *)
(* yields at every await, and the steps below are cut at the awaits that   *)
(* touch the database or wait for a message. A local variable is kept      *)
(* until its last use.                                                     *)
(***************************************************************************)
Procs == DOMAIN task
Channels == {1, 2}
Authors == {"author", "other"}

NoFlags == [name |-> NoValue]
NoMember == [selected |-> 0, next_id |-> 0, redeems |-> 0, order_by |-> ""]
Message(t, k) == [text |-> t, n |-> k]
NoMsg == Message("", 0)

IdleTask ==
    [pc |-> "idle", cmd |-> "", channel |-> 0, flags |-> NoFlags, arg |-> "",
     number |-> 0, species |-> 0, member |-> NoMember, aggregations |-> <<>>,
     num |-> 0, pokemon |-> <<>>, numbers |-> <<>>, msg |-> NoMsg, sent |-> "",
     queries |-> {}, num_pages |-> 0, pidx |-> 0, page |-> <<>>]

\* Database.fetch_member_info: the member's scalar fields
fetch_member_info(member) ==
    [selected |-> member.selected, next_id |-> member.next_id,
     redeems |-> member.redeems, order_by |-> member.order_by]

\* str.lower() on the texts of the model
Lower(t) ==
    CASE t = "Y" -> "y"
      [] t = "LATEST" -> "latest"
      [] t = "CONFIRM RELEASE" -> "confirm release"
      [] OTHER -> t

\* the number argument of release, select and favorite
NumberArgs == <<"1", "2", "3", "4", "5", "6">>
ArgIsDigit(a) == \E i \in 1..Len(NumberArgs) : NumberArgs[i] = a
ArgInt(a) == CHOOSE i \in 1..Len(NumberArgs) : NumberArgs[i] = a

\* return: the coroutine ends having sent m; its locals are gone
Return(t, m) ==
    [IdleTask EXCEPT !.pc = "done", !.cmd = t.cmd, !.flags = t.flags,
                     !.num = t.num, !.sent = m, !.queries = t.queries]
Query(t, q) == [t EXCEPT !.queries = @ \cup {q}]

\* check without the comparison of the channel
checkAuthorOnly(t, author, channel) == author = "author"

\* lines 467-468, 536-537: the check of wait_for
check(t, author, channel) == channel = t.channel /\ author = "author"

\* ReleaseConfirmed taking every answer but "n"
ReleaseConfirmedNotNo(m) == Lower(m.text) # "n"

\* line 473: the answer that confirms a release
ReleaseConfirmed(m) == Lower(m.text) = "y"

\* ReleaseAllConfirmed without the comparison of the count
ReleaseAllConfirmedAnyCount(m, num) == m.text = "confirm release"

\* line 542: the echo that confirms a releaseall
ReleaseAllConfirmed(m, num) == m.text = "confirm release" /\ m.n = num

\* lines 471-474, 540-543: wait_for returns the message; anything but the
\* confirmation ends the command with "Aborted."
Resume(t, m) ==
    IF (t.cmd = "release" /\ ReleaseConfirmed(m))
       \/ (t.cmd = "releaseall" /\ ReleaseAllConfirmed(m, t.num))
        THEN [t EXCEPT !.pc = "confirmed", !.msg = m]
        ELSE Return(t, "Aborted.")

\* a message event: every coroutine waiting for it resumes with it
Deliver(tasks, author, channel, m) ==
    [q \in Procs |->
        IF tasks[q].pc = "wait" /\ check(tasks[q], author, channel)
            THEN Resume(tasks[q], m)
            ELSE tasks[q]]

\* the commands that read ctx.channel again after they have started
Waiting == {"release", "releaseall"}

\* the commands that end in a page session of their channel
Paging == {"pokemon", "info"}

\* The author sends a command: waiting coroutines see the message, and the
\* command starts as a new coroutine (has_started lets it run).
Invoke(p, c, ch, fl, a) ==
    /\ task[p].pc = "idle"
    /\ \A q \in 1..(p - 1) : task[q].pc # "idle"
    /\ doc.exists
    /\ task' = [Deliver(task, "author", ch, Message(c, 0)) EXCEPT
                    ![p] = [IdleTask EXCEPT !.pc = "start", !.cmd = c,
                                            !.channel = IF c \in Waiting \cup Paging
                                                            THEN ch ELSE 0,
                                            !.flags = fl, !.arg = a]]
    /\ UNCHANGED <<doc, parseVars>>

\* Somebody sends a message that is no command.
Say(author, ch, m) ==
    /\ \E q \in Procs : task[q].pc = "wait"
    /\ task' = Deliver(task, author, ch, m)
    /\ UNCHANGED <<doc, parseVars>>

\* Timeout that tells the user and goes on waiting
TimeoutWaitsOn(p) ==
    /\ task[p].pc = "wait"
    /\ task' = [task EXCEPT ![p].sent = "Time's up."]
    /\ UNCHANGED <<doc, parseVars>>

\* lines 476-477, 545-546: wait_for gives up after 15 seconds
Timeout(p) ==
    /\ task[p].pc = "wait"
    /\ task' = [task EXCEPT ![p] = Return(@, "Time's up. Aborted.")]
    /\ UNCHANGED <<doc, parseVars>>

(***************************************************************************)
(* releaseall, lines 500-561.                                              *)
(***************************************************************************)
\* lines 510-515: the stages that protect the selected and favorited entries
ProtectStages(member) ==
    <<MatchNum("pokemon.number", "$ne", member.selected),
      MatchBool("pokemon.favorite", "$ne", TRUE)>>

\* lines 503-515: compile the filter, read the member, add the protection
ReleaseAllStart(p) ==
    /\ task[p].pc = "start" /\ task[p].cmd = "releaseall"
    /\ LET t == task[p]
           f == create_filter(t.flags)
       IN  task' = [task EXCEPT ![p] =
                IF f.tag = "None" THEN Return(t, f.sent)
                ELSE IF f.tag # "List" THEN Return(t, f.tag)
                ELSE [Query(t, "fetch_member_info") EXCEPT
                        !.pc = "count",
                        !.aggregations = f.stages \o ProtectStages(fetch_member_info(doc))]]
    /\ UNCHANGED <<doc, parseVars>>

\* lines 519-534: count, and prompt with the count
ReleaseAllCount(p) ==
    /\ task[p].pc = "count" /\ task[p].cmd = "releaseall"
    /\ LET t == Query(task[p], "fetch_pokemon_count")
           n == fetch_pokemon_count(doc, t.aggregations)
       IN  task' = [task EXCEPT ![p] =
                IF n = 0 THEN Return(t, "Found no pokemon matching this search")
                ELSE [t EXCEPT !.pc = "wait", !.num = n,
                               !.sent = "Are you sure you want to release num pokemon?"]]
    /\ UNCHANGED <<doc, parseVars>>

\* lines 550-555: announce, and list the entries to release
ReleaseAllList(p) ==
    /\ task[p].pc = "confirmed" /\ task[p].cmd = "releaseall"
    /\ LET t == task[p]
           l == fetch_pokemon_list(doc, 0, t.num, t.aggregations)
       IN  task' = [task EXCEPT ![p] =
                [Query(t, "fetch_pokemon_list") EXCEPT
                    !.pc = "pull",
                    !.aggregations = <<>>,
                    !.msg = NoMsg,
                    !.sent = "Releasing num pokemon, this might take a while...",
                    !.numbers = [i \in 1..Len(l) |-> l[i].number]]]
    /\ UNCHANGED <<doc, parseVars>>

\* lines 557-561: remove the listed entries
ReleaseAllPull(p) ==
    /\ task[p].pc = "pull" /\ task[p].cmd = "releaseall"
    /\ doc' = Pull(doc, {task[p].numbers[i] : i \in 1..Len(task[p].numbers)})
    /\ task' = [task EXCEPT ![p] =
            Return(Query(task[p], "update_member"), "You have released num pokemon.")]
    /\ UNCHANGED parseVars

(***************************************************************************)
(* release, lines 429-487.                                                 *)
(***************************************************************************)
\* lines 432-444: read the member, then decode the argument
ReleaseStart(p) ==
    /\ task[p].pc = "start" /\ task[p].cmd = "release"
    /\ LET t == [Query(task[p], "fetch_member_info") EXCEPT
                    !.member = fetch_member_info(doc)]
       IN  task' = [task EXCEPT ![p] =
                IF ArgIsDigit(t.arg)
                    THEN [t EXCEPT !.pc = "fetch", !.number = ArgInt(t.arg)]
                ELSE IF Lower(t.arg) = "latest"
                    THEN [t EXCEPT !.pc = "fetch", !.number = -1]
                ELSE Return(t, "p!release <number> to release a pokemon")]
    /\ UNCHANGED <<doc, parseVars>>

\* lines 446-465: fetch the entry, refuse a protected one, prompt
ReleaseFetch(p) ==
    /\ task[p].pc = "fetch" /\ task[p].cmd = "release"
    /\ LET t == Query(task[p], "fetch_pokemon")
           i == fetch_pokemon(doc, t.number)
       IN  task' = [task EXCEPT ![p] =
                IF i = 0 THEN Return(t, "Couldn't find that pokemon!")
                ELSE IF t.member.selected = doc.pokemon[i].number
                    THEN Return(t, "You can't release your selected pokemon!")
                ELSE IF doc.pokemon[i].favorite
                    THEN Return(t, "You can't release favorited pokemon!")
                ELSE [t EXCEPT !.pc = "wait", !.pokemon = <<doc.pokemon[i]>>,
                               !.member = NoMember,
                               !.sent = "Are you sure you want to release?"]]
    /\ UNCHANGED <<doc, parseVars>>

\* lines 481-487: remove the entry whose number is the one decoded
ReleaseUpdate(p) ==
    /\ task[p].pc = "confirmed" /\ task[p].cmd = "release"
    /\ doc' = Pull(doc, {task[p].number})
    /\ task' = [task EXCEPT ![p] =
            Return(Query(task[p], "update_member"), "You released your pokemon.")]
    /\ UNCHANGED parseVars

(***************************************************************************)
(* select, lines 287-316.                                                  *)
(***************************************************************************)
\* lines 290-308: decode the argument and fetch the entry
SelectStart(p) ==
    /\ task[p].pc = "start" /\ task[p].cmd = "select"
    /\ LET t == Query(Query(task[p], "fetch_member_info"), "fetch_pokemon")
           number == IF ArgIsDigit(t.arg) THEN ArgInt(t.arg) ELSE -1
       IN  task' = [task EXCEPT ![p] =
                IF ~ArgIsDigit(t.arg) /\ t.arg # "latest"
                    THEN Return(Query(task[p], "fetch_member_info"),
                                "p!select <number> to select a pokemon")
                ELSE IF fetch_pokemon(doc, number) = 0
                    THEN Return(t, "Couldn't find that pokemon!")
                ELSE [t EXCEPT !.pc = "set", !.number = number]]
    /\ UNCHANGED <<doc, parseVars>>

\* lines 310-316: store the number the user gave as the selected one
SelectSet(p) ==
    /\ task[p].pc = "set" /\ task[p].cmd = "select"
    /\ doc' = [doc EXCEPT !.selected = task[p].number]
    /\ task' = [task EXCEPT ![p] =
            Return(Query(task[p], "update_member"), "You selected your pokemon.")]
    /\ UNCHANGED parseVars

(***************************************************************************)
(* favorite, lines 111-151.                                                *)
(***************************************************************************)
\* lines 114-128: read the member, then decode the argument
FavoriteStart(p) ==
    /\ task[p].pc = "start" /\ task[p].cmd = "favorite"
    /\ LET t == Query(task[p], "fetch_member_info")
       IN  task' = [task EXCEPT ![p] =
                IF t.arg = ""
                    THEN [t EXCEPT !.pc = "fetch", !.number = fetch_member_info(doc).selected]
                ELSE IF ArgIsDigit(t.arg)
                    THEN [t EXCEPT !.pc = "fetch", !.number = ArgInt(t.arg)]
                ELSE IF t.arg = "latest"
                    THEN [t EXCEPT !.pc = "fetch", !.number = -1]
                ELSE Return(t, "Please use p!favorite")]
    /\ UNCHANGED <<doc, parseVars>>

\* lines 130-135: fetch the entry
FavoriteFetch(p) ==
    /\ task[p].pc = "fetch" /\ task[p].cmd = "favorite"
    /\ LET t == Query(task[p], "fetch_pokemon")
           i == fetch_pokemon(doc, t.number)
       IN  task' = [task EXCEPT ![p] =
                IF i = 0 THEN Return(t, "Couldn't find that pokemon!")
                ELSE [t EXCEPT !.pc = "set", !.pokemon = <<doc.pokemon[i]>>]]
    /\ UNCHANGED <<doc, parseVars>>

\* lines 137-151: write the opposite of the favorite marker that was read
FavoriteSet(p) ==
    /\ task[p].pc = "set" /\ task[p].cmd = "favorite"
    /\ LET e == task[p].pokemon[1] IN
       /\ doc' = SetFavorite(doc, e.number, ~e.favorite)
       /\ task' = [task EXCEPT ![p] =
            Return(Query(task[p], "update_pokemon"),
                   IF e.favorite THEN "Unfavorited your pokemon." ELSE "Favorited your pokemon.")]
    /\ UNCHANGED parseVars

(***************************************************************************)
(* redeem, lines 27-81.                                                    *)
(***************************************************************************)
\* the species redeem refuses (species.catchable is false)
Uncatchable == {1}
\* mongo.random_iv()
RandomIVs == {0, 2}

\* lines 30-54: read the member and check the request
RedeemStart(p) ==
    /\ task[p].pc = "start" /\ task[p].cmd = "redeem"
    /\ LET t == [Query(task[p], "fetch_member_info") EXCEPT
                    !.member = fetch_member_info(doc)]
       IN  task' = [task EXCEPT ![p] =
                IF t.arg = "" THEN Return(t, "Your Redeems")
                ELSE IF t.member.redeems = 0 THEN Return(t, "You don't have any redeems!")
                ELSE IF ~SpeciesFound(t.arg) THEN Return(t, "Could not find a pokemon matching")
                ELSE IF species_by_name(t.arg) \in Uncatchable
                    THEN Return(t, "You can't redeem this pokemon!")
                ELSE [t EXCEPT !.pc = "update", !.species = species_by_name(t.arg)]]
    /\ UNCHANGED <<doc, parseVars>>

\* lines 56-81: one update increments next_id, decrements redeems and pushes
\* the entry numbered with the next_id that was read
RedeemUpdate(p) ==
    /\ task[p].pc = "update" /\ task[p].cmd = "redeem"
    /\ \E hp \in RandomIVs :
        doc' = [doc EXCEPT !.next_id = @ + 1, !.redeems = @ - 1,
                           !.pokemon = Append(@, Entry(task[p].member.next_id,
                                                       task[p].species, 1, FALSE, hp, 0))]
    /\ task' = [task EXCEPT ![p] =
            Return(Query(task[p], "update_member"), "You used a redeem")]
    /\ UNCHANGED parseVars

Pending == [tag |-> "Pending"]

(***************************************************************************)
(* The page controller (helpers.pagination.Paginator) as the pokemon       *)
(* command uses it, and the pokemon command, lines 585-656.                *)
(***************************************************************************)
PageSize == 20

\* Ceil rounding down
Floor(n, d) == n \div d

\* math.ceil(num / 20)
Ceil(n, d) == (n + d - 1) \div d

\* Paginator.send: the initial index is clamped into [0, num_pages - 1]
Clamp(i, n) == IF i < 0 THEN 0 ELSE IF i > n - 1 THEN n - 1 ELSE i

\* PageRefused that lets page 0 through
PageRefusedNegative(page) == page < 0

\* line 588: the page argument that is refused
PageRefused(page) == page < 1

\* lines 602-607: the stages that sort by the member's order
SortStages(member) ==
    <<Stage("$addFields", "sorting", member.order_by, {}, 0, FALSE), SortStage("sorting")>>

\* lines 588-607: check the page, compile the filter, read the member
PokemonStart(p) ==
    /\ task[p].pc = "start" /\ task[p].cmd = "pokemon"
    /\ LET t == task[p]
           f == create_filter(t.flags)
       IN  task' = [task EXCEPT ![p] =
                IF PageRefused(t.flags.page) THEN Return(t, "Page must be positive!")
                ELSE IF f.tag = "None" THEN Return(t, f.sent)
                ELSE IF f.tag # "List" THEN Return(t, f.tag)
                ELSE [Query(t, "fetch_member_info") EXCEPT
                        !.pc = "count",
                        !.aggregations = f.stages \o SortStages(fetch_member_info(doc))]]
    /\ UNCHANGED <<doc, parseVars>>

\* lines 617-624, 655-656: count, and hand the producer to a page controller
PokemonCount(p) ==
    /\ task[p].pc = "count" /\ task[p].cmd = "pokemon"
    /\ LET t == Query(task[p], "fetch_pokemon_count")
           n == fetch_pokemon_count(doc, t.aggregations)
       IN  task' = [task EXCEPT ![p] =
                IF n = 0 THEN Return(t, "Found no pokemon matching this search.")
                ELSE [t EXCEPT !.pc = "render", !.num = n,
                               !.num_pages = Ceil(n, PageSize),
                               !.pidx = Clamp(t.flags.page - 1, Ceil(n, PageSize))]]
    /\ UNCHANGED <<doc, parseVars>>

\* pgstart one page further
pgstartNext(pidx) == (pidx + 1) * PageSize

\* line 628: pgstart = pidx * 20
pgstart(pidx) == pidx * PageSize

\* lines 626-653: get_page fetches the window of the current index; an empty
\* window is answered through clear
GetPage(p) ==
    /\ task[p].pc = "render" /\ task[p].cmd = "pokemon"
    /\ LET t == Query(task[p], "fetch_pokemon_list")
           l == fetch_pokemon_list(doc, pgstart(t.pidx), PageSize, t.aggregations)
       IN  task' = [task EXCEPT ![p] =
                IF Len(l) = 0
                    THEN [t EXCEPT !.pc = "paging", !.page = <<>>,
                                   !.sent = "There are no pokemon on this page!"]
                    ELSE [t EXCEPT !.pc = "paging",
                                   !.page = [i \in 1..Len(l) |-> l[i].number],
                                   !.sent = "Your pokemon"]]
    /\ UNCHANGED <<doc, parseVars>>

(***************************************************************************)
(* The page session (helpers.pagination.Paginator): Active with a current  *)
(* index while pc is "render" (the producer runs) or "paging" (the session *)
(* waits for an input), Terminated when pc is "terminated".                *)
(***************************************************************************)
Input(k, i) == [kind |-> k, index |-> i]

\* first, previous, next, last, a jump to a page index, and the termination
\* input
Inputs ==
    {Input(k, 0) : k \in {"first", "previous", "next", "last", "stop"}}
    \cup {Input("jump", i) : i \in -1..MaxPage}

\* the index an input asks for
Target(in, pidx, num_pages) ==
    CASE in.kind = "first" -> 0
      [] in.kind = "previous" -> pidx - 1
      [] in.kind = "next" -> pidx + 1
      [] in.kind = "last" -> num_pages - 1
      [] OTHER -> in.index

\* NewIndex without the test of the range
NewIndexUnchecked(in, pidx, num_pages) == Target(in, pidx, num_pages)

\* the index after an input: an input that asks for an index below 0 or above
\* num_pages - 1 is a no-op
NewIndex(in, pidx, num_pages) ==
    LET i == Target(in, pidx, num_pages)
    IN  IF i < 0 \/ i > num_pages - 1 THEN pidx ELSE i

\* the reaction of an active session to an input: the termination input ends
\* it, an input that does not change the index is a no-op, any other makes
\* the producer run for the new index
Step(t, in) ==
    IF in.kind = "stop" THEN [t EXCEPT !.pc = "terminated"]
    ELSE IF NewIndex(in, t.pidx, t.num_pages) = t.pidx THEN t
    ELSE [t EXCEPT !.pc = "render", !.pidx = NewIndex(in, t.pidx, t.num_pages)]

\* Turn without the test that the session waits for an input
TurnAlways(t, in) == Step(t, in)

\* one input to one session: a session that does not wait for an input (its
\* producer runs, or it is terminated) takes none
Turn(t, in) == IF t.pc # "paging" THEN t ELSE Step(t, in)

\* PageCheck without the comparison of the channel
PageCheckAuthorOnly(t, author, channel) == author = "author"

\* the session takes the inputs of the invoking user in the invoking channel
PageCheck(t, author, channel) == channel = t.channel /\ author = "author"

\* Somebody gives a navigation input in a channel.
Press(author, ch, in) ==
    /\ \E q \in Procs : task[q].cmd \in Paging /\ task[q].pc \in {"paging", "terminated"}
    /\ task' = [q \in Procs |->
                    IF task[q].cmd \in Paging /\ PageCheck(task[q], author, ch)
                        THEN Turn(task[q], in) ELSE task[q]]
    /\ UNCHANGED <<doc, parseVars>>

\* the idle timeout of the session: navigation is frozen, the page stays
PageTimeout(p) ==
    /\ task[p].cmd \in Paging /\ task[p].pc = "paging"
    /\ task' = [task EXCEPT ![p].pc = "terminated"]
    /\ UNCHANGED <<doc, parseVars>>

(***************************************************************************)
(* info, lines 216-283.                                                    *)
(***************************************************************************)
\* Database.fetch_pokemon_idx: the 0-based position of the entry with that
\* number, -1 standing for the empty result
fetch_pokemon_idx(member, number) ==
    IF \E i \in 1..Len(member.pokemon) : member.pokemon[i].number = number
        THEN (CHOOSE i \in 1..Len(member.pokemon) :
                /\ member.pokemon[i].number = number
                /\ \A j \in 1..(i - 1) : member.pokemon[j].number # number) - 1
        ELSE -1

\* Database.fetch_pokemon_by_idx: the entry at a 0-based position, <<>> for
\* None
fetch_pokemon_by_idx(member, idx) ==
    IF 0 <= idx /\ idx < Len(member.pokemon) THEN <<member.pokemon[idx + 1]>> ELSE <<>>

\* lines 282-283: a page controller of num_pages pages is sent with an index
Paginate(t, num_pages, pidx) ==
    [t EXCEPT !.pc = "render", !.num_pages = num_pages, !.pidx = Clamp(pidx, num_pages)]

\* lines 219-220: num[0]["num_matches"] of the count without a filter; the
\* empty result has no element 0
InfoPages(count) == count

\* lines 219-238: count, then decode the argument
InfoCount(p) ==
    /\ task[p].pc = "start" /\ task[p].cmd = "info"
    /\ LET t == Query(task[p], "fetch_pokemon_count")
           n == fetch_pokemon_count(doc, <<>>)
       IN  task' = [task EXCEPT ![p] =
                IF n = 0 THEN Return(t, "IndexError")
                ELSE IF t.arg = "latest" THEN Paginate([t EXCEPT !.num = InfoPages(n)],
                                                       InfoPages(n), -1)
                ELSE IF t.arg = "" THEN [t EXCEPT !.pc = "member", !.num = InfoPages(n)]
                ELSE IF ArgIsDigit(t.arg)
                    THEN [t EXCEPT !.pc = "index", !.num = InfoPages(n),
                                   !.number = ArgInt(t.arg)]
                ELSE Return(t, "Please use p!info")]
    /\ UNCHANGED <<doc, parseVars>>

\* line 226: no argument, the selected entry is asked for
InfoMember(p) ==
    /\ task[p].pc = "member" /\ task[p].cmd = "info"
    /\ task' = [task EXCEPT ![p] =
            [Query(@, "fetch_member_info") EXCEPT
                !.pc = "index", !.number = fetch_member_info(doc).selected]]
    /\ UNCHANGED <<doc, parseVars>>

\* lines 227-240, 282-283: the position of the entry, and the page controller
InfoIndex(p) ==
    /\ task[p].pc = "index" /\ task[p].cmd = "info"
    /\ LET t == Query(task[p], "fetch_pokemon_idx")
           i == fetch_pokemon_idx(doc, t.number)
       IN  task' = [task EXCEPT ![p] =
                IF i = -1 THEN Return(t, "Couldn't find that pokemon!")
                ELSE Paginate(t, t.num, i)]
    /\ UNCHANGED <<doc, parseVars>>

\* lines 242-280: get_page fetches the entry at the current index; None is
\* answered through clear
InfoGetPage(p) ==
    /\ task[p].pc = "render" /\ task[p].cmd = "info"
    /\ LET t == Query(task[p], "fetch_pokemon_by_idx")
           e == fetch_pokemon_by_idx(doc, t.pidx)
       IN  task' = [task EXCEPT ![p] =
                IF e = <<>>
                    THEN [t EXCEPT !.pc = "paging", !.page = <<>>,
                                   !.sent = "Couldn't find that pokemon!"]
                    ELSE [t EXCEPT !.pc = "paging", !.page = <<e[1].number>>,
                                   !.sent = "Displaying pokemon"]]
    /\ UNCHANGED <<doc, parseVars>>

(***************************************************************************)
(* Spec: the author's commands as interleaved coroutines on one member     *)
(* document.                                                               *)
(***************************************************************************)
\* a member who has started and caught some pokemon
InitialBox == <<Entry(1, 1, 50, FALSE, 2, 0), Entry(2, 2, 10, FALSE, 0, 0)>>

InitialDoc ==
    [exists |-> TRUE, pokemon |-> InitialBox, selected |-> 1, next_id |-> 3,
     redeems |-> 1, order_by |-> "number"]

ParseIdle == text = <<>> /\ ops = Pending

\* the flag mappings releaseall is invoked with
ReleaseAllFlagSets ==
    {[name |-> n, type |-> t, hpiv |-> NoValue, atkiv |-> NoValue,
      defiv |-> NoValue, spatkiv |-> NoValue, spdefiv |-> NoValue,
      spdiv |-> NoValue, iv |-> NoValue] :
        n \in {NoValue, Some("lugia")}, t \in {NoValue}}

\* the texts a user answers a prompt with
Answers ==
    {Message("y", 0), Message("Y", 0), Message("n", 0)}
    \cup {Message("confirm release", k) : k \in 1..Len(doc.pokemon)}
    \cup {Message("CONFIRM RELEASE", k) : k \in 1..Len(doc.pokemon)}

Init ==
    /\ ParseIdle
    /\ doc = InitialDoc
    /\ task = [p \in 1..MaxSessions |-> IdleTask]

InvokeReleaseAll(p) ==
    \E ch \in Channels, fl \in ReleaseAllFlagSets : Invoke(p, "releaseall", ch, fl, "")

InvokeRelease(p) ==
    \E ch \in Channels, a \in {"1", "2", "LATEST", "all"} :
        Invoke(p, "release", ch, NoFlags, a)

InvokeSelect(p) ==
    \E ch \in Channels, a \in {"1", "2", "latest", ""} :
        Invoke(p, "select", ch, NoFlags, a)

InvokeFavorite(p) ==
    \E ch \in Channels, a \in {"2", "latest", "", "all"} :
        Invoke(p, "favorite", ch, NoFlags, a)

InvokeRedeem(p) ==
    /\ doc.next_id <= MaxNextId
    /\ \E ch \in Channels, a \in {"", "bulbasaur", "mew"} :
        Invoke(p, "redeem", ch, NoFlags, a)

Answer == \E author \in Authors, ch \in Channels, m \in Answers : Say(author, ch, m)

Next ==
    \/ \E p \in Procs : InvokeReleaseAll(p)
    \/ \E p \in Procs : InvokeRelease(p)
    \/ \E p \in Procs : InvokeSelect(p)
    \/ \E p \in Procs : InvokeFavorite(p)
    \/ \E p \in Procs : InvokeRedeem(p)
    \/ Answer
    \/ \E p \in Procs : Timeout(p)
    \/ \E p \in Procs : ReleaseAllStart(p)
    \/ \E p \in Procs : ReleaseAllCount(p)
    \/ \E p \in Procs : ReleaseAllList(p)
    \/ \E p \in Procs : ReleaseAllPull(p)
    \/ \E p \in Procs : ReleaseStart(p)
    \/ \E p \in Procs : ReleaseFetch(p)
    \/ \E p \in Procs : ReleaseUpdate(p)
    \/ \E p \in Procs : SelectStart(p)
    \/ \E p \in Procs : SelectSet(p)
    \/ \E p \in Procs : FavoriteStart(p)
    \/ \E p \in Procs : FavoriteFetch(p)
    \/ \E p \in Procs : FavoriteSet(p)
    \/ \E p \in Procs : RedeemStart(p)
    \/ \E p \in Procs : RedeemUpdate(p)

Spec == Init /\ [][Next]_vars

(***************************************************************************)
(* SpecStale: two releaseall prompts and a redeem between them, one more   *)
(* coroutine than Spec runs.                                               *)
(***************************************************************************)
InitStale ==
    /\ ParseIdle
    /\ doc = InitialDoc
    /\ task = [p \in 1..(MaxSessions + 1) |-> IdleTask]

InvokeBareReleaseAll(p) ==
    \E ch \in Channels, fl \in {f \in ReleaseAllFlagSets : f.name = NoValue} :
        Invoke(p, "releaseall", ch, fl, "")

InvokeRedeemSpecies(p) ==
    /\ doc.next_id <= MaxNextId
    /\ \E ch \in Channels : Invoke(p, "redeem", ch, NoFlags, "bulbasaur")

\* the answers to a releaseall prompt: a refusal and the echo of every count
Echoes == {Message("n", 0)} \cup {Message("confirm release", k) : k \in 1..Len(doc.pokemon)}

Echo == \E ch \in Channels, m \in Echoes : Say("author", ch, m)

NextStale ==
    \/ \E p \in Procs : InvokeBareReleaseAll(p)
    \/ \E p \in Procs : InvokeRedeemSpecies(p)
    \/ Echo
    \/ \E p \in Procs : Timeout(p)
    \/ \E p \in Procs : ReleaseAllStart(p)
    \/ \E p \in Procs : ReleaseAllCount(p)
    \/ \E p \in Procs : ReleaseAllList(p)
    \/ \E p \in Procs : ReleaseAllPull(p)
    \/ \E p \in Procs : RedeemStart(p)
    \/ \E p \in Procs : RedeemUpdate(p)

SpecStale == InitStale /\ [][NextStale]_vars

(***************************************************************************)
(* SpecFilter: one pokemon or releaseall command on every bounded flag     *)
(* mapping, against a collection that nothing else changes.                *)
(***************************************************************************)
Dex ==
    <<Entry(1, 1, 50, FALSE, 2, 0), Entry(2, 1, 10, TRUE, 0, 1),
      Entry(3, 2, 50, TRUE, 1, 1), Entry(4, 4, 50, FALSE, 1, 2)>>

FilterBoxes == {SubSeq(Dex, 1, 2), Dex}

Tok2(a, b) == <<a, b>>

\* the values a numerical flag is given: 1, <1, > 1, a, an empty token, and
\* a superscript two
FlagTexts ==
    {<<Str("1")>>, <<Tok2("<", "1")>>, <<Str(">"), Str("1")>>, <<Str("a")>>,
     <<<<>>>>, <<Str("sup2")>>}

\* the mappings of the numerical flags: the first MaxNumFlags of the table
\* may be given, the others are None
NumericalFlagSets ==
    {f \in [{FILTER_BY_NUMERICAL[i] : i \in 1..Len(FILTER_BY_NUMERICAL)}
                -> {NoValue} \cup {Some(x) : x \in FlagTexts}] :
        \A i \in 1..Len(FILTER_BY_NUMERICAL) :
            i > MaxNumFlags => f[FILTER_BY_NUMERICAL[i]] = NoValue}

Merge(f, g) == [k \in DOMAIN f \cup DOMAIN g |-> IF k \in DOMAIN f THEN f[k] ELSE g[k]]

PokemonFlagSets ==
    {Merge([page |-> 1, mythical |-> m, legendary |-> l, ub |-> u, favorite |-> fav,
            name |-> n, level |-> lv, type |-> ty], num) :
        m \in BOOLEAN, l \in BOOLEAN, u \in BOOLEAN, fav \in BOOLEAN,
        n \in {NoValue, Some("mew"), Some("missingno")},
        lv \in {NoValue, Some(50)},
        ty \in {NoValue, Some("psychic")},
        num \in NumericalFlagSets}

ReleaseAllFilterSets ==
    {Merge([name |-> n, type |-> ty], num) :
        n \in {NoValue, Some("mew"), Some("missingno")},
        ty \in {NoValue, Some("psychic")},
        num \in NumericalFlagSets}

InitFilter ==
    /\ ParseIdle
    /\ \E box \in FilterBoxes : doc = [InitialDoc EXCEPT !.pokemon = box]
    /\ \E c \in {"pokemon", "releaseall"} :
       \E fl \in (IF c = "pokemon" THEN PokemonFlagSets ELSE ReleaseAllFilterSets) :
        task = [p \in {1} |->
                    [IdleTask EXCEPT !.pc = "start", !.cmd = c, !.channel = 1, !.flags = fl]]

NextFilter ==
    \/ \E p \in Procs : PokemonStart(p)
    \/ \E p \in Procs : PokemonCount(p)
    \/ \E p \in Procs : GetPage(p)
    \/ \E p \in Procs : ReleaseAllStart(p)
    \/ \E p \in Procs : ReleaseAllCount(p)
    \/ \E p \in Procs : Timeout(p)

SpecFilter == InitFilter /\ [][NextFilter]_vars

(***************************************************************************)
(* SpecPage: the pokemon command without a filter on collections of many   *)
(* entries, for every page argument.                                       *)
(***************************************************************************)
Boxed(n) == [k \in 1..n |-> Entry(k, 4, 1, FALSE, 0, 0)]

PageFlags(page) ==
    Merge([page |-> page, mythical |-> FALSE, legendary |-> FALSE, ub |-> FALSE,
           favorite |-> FALSE, name |-> NoValue, level |-> NoValue, type |-> NoValue],
          [k \in {FILTER_BY_NUMERICAL[i] : i \in 1..Len(FILTER_BY_NUMERICAL)} |-> NoValue])

InitPage ==
    /\ ParseIdle
    /\ \E n \in 0..MaxBoxed :
        doc = [InitialDoc EXCEPT !.pokemon = Boxed(n), !.next_id = n + 1]
    /\ \E page \in -1..MaxPage :
        task = [p \in {1} |->
                    [IdleTask EXCEPT !.pc = "start", !.cmd = "pokemon", !.channel = 1,
                                     !.flags = PageFlags(page)]]

NextPage ==
    \/ \E p \in Procs : PokemonStart(p)
    \/ \E p \in Procs : PokemonCount(p)
    \/ \E p \in Procs : GetPage(p)

SpecPage == InitPage /\ [][NextPage]_vars

(***************************************************************************)
(* SpecTurn: the page session of the pokemon command on the collections of *)
(* SpecPage, with navigation inputs and the idle timeout.                  *)
(***************************************************************************)
Turning == \E author \in Authors, ch \in Channels, in \in Inputs : Press(author, ch, in)

NextTurn ==
    \/ \E p \in Procs : PokemonStart(p)
    \/ \E p \in Procs : PokemonCount(p)
    \/ \E p \in Procs : GetPage(p)
    \/ Turning
    \/ \E p \in Procs : PageTimeout(p)

SpecTurn == InitPage /\ [][NextTurn]_vars

(***************************************************************************)
(* SpecSession: pokemon and info sessions of the author interleaved with   *)
(* release and releaseall on a collection of two entries or of none (a     *)
(* member who selected latest and released all).                           *)
(***************************************************************************)
SessionDocs ==
    {InitialDoc, [InitialDoc EXCEPT !.pokemon = <<>>, !.selected = -1]}

InitSession ==
    /\ ParseIdle
    /\ doc \in SessionDocs
    /\ task = [p \in 1..MaxSessions |-> IdleTask]

InvokePokemon(p) ==
    \E ch \in Channels, page \in 1..2, n \in {NoValue, Some("lugia")} :
        Invoke(p, "pokemon", ch, [PageFlags(page) EXCEPT !.name = n], "")

InvokeInfo(p) ==
    \E ch \in Channels, a \in {"", "latest", "2", "all"} :
        Invoke(p, "info", ch, NoFlags, a)

YesNo == \E author \in Authors, ch \in Channels, m \in {Message("y", 0), Message("n", 0)} :
            Say(author, ch, m)

NextSession ==
    \/ \E p \in Procs : InvokePokemon(p)
    \/ \E p \in Procs : InvokeInfo(p)
    \/ \E p \in Procs : InvokeRelease(p)
    \/ \E p \in Procs : InvokeReleaseAll(p)
    \/ Answer
    \/ \E p \in Procs : ReleaseAllStart(p)
    \/ \E p \in Procs : ReleaseAllCount(p)
    \/ \E p \in Procs : ReleaseAllList(p)
    \/ \E p \in Procs : ReleaseAllPull(p)
    \/ \E p \in Procs : Timeout(p)
    \/ Turning
    \/ \E p \in Procs : PageTimeout(p)
    \/ \E p \in Procs : PokemonStart(p)
    \/ \E p \in Procs : PokemonCount(p)
    \/ \E p \in Procs : GetPage(p)
    \/ \E p \in Procs : InfoCount(p)
    \/ \E p \in Procs : InfoMember(p)
    \/ \E p \in Procs : InfoIndex(p)
    \/ \E p \in Procs : InfoGetPage(p)
    \/ \E p \in Procs : ReleaseStart(p)
    \/ \E p \in Procs : ReleaseFetch(p)
    \/ \E p \in Procs : ReleaseUpdate(p)

SpecSession == InitSession /\ [][NextSession]_vars

(***************************************************************************)
(* SpecRace: pokemon sessions interleaved with release on a collection of  *)
(* two entries or of one more entry than a page holds.                     *)
(***************************************************************************)
RaceDocs ==
    {InitialDoc,
     [InitialDoc EXCEPT !.pokemon = Boxed(PageSize + 1), !.next_id = PageSize + 2]}

InitRace ==
    /\ ParseIdle
    /\ doc \in RaceDocs
    /\ task = [p \in 1..MaxSessions |-> IdleTask]

NextRace ==
    \/ \E p \in Procs : InvokePokemon(p)
    \/ \E p \in Procs : InvokeRelease(p)
    \/ YesNo
    \/ \E p \in Procs : Timeout(p)
    \/ Turning
    \/ \E p \in Procs : PageTimeout(p)
    \/ \E p \in Procs : PokemonStart(p)
    \/ \E p \in Procs : PokemonCount(p)
    \/ \E p \in Procs : GetPage(p)
    \/ \E p \in Procs : ReleaseStart(p)
    \/ \E p \in Procs : ReleaseFetch(p)
    \/ \E p \in Procs : ReleaseUpdate(p)

SpecRace == InitRace /\ [][NextRace]_vars

(***************************************************************************)
(* SpecLive: release and releaseall with the scheduling of the event loop: *)
(* wait_for(timeout=15) raises TimeoutError unless a message resumes the   *)
(* coroutine before, and an awaited database call returns, so a coroutine  *)
(* that can take its next step does not stay where it is for ever.  Users  *)
(* are not obliged to send anything.                                       *)
(***************************************************************************)
NextLive ==
    \/ \E p \in Procs : InvokeReleaseAll(p)
    \/ \E p \in Procs : InvokeRelease(p)
    \/ Answer
    \/ \E p \in Procs : Timeout(p)
    \/ \E p \in Procs : ReleaseAllStart(p)
    \/ \E p \in Procs : ReleaseAllCount(p)
    \/ \E p \in Procs : ReleaseAllList(p)
    \/ \E p \in Procs : ReleaseAllPull(p)
    \/ \E p \in Procs : ReleaseStart(p)
    \/ \E p \in Procs : ReleaseFetch(p)
    \/ \E p \in Procs : ReleaseUpdate(p)

Scheduling ==
    \A p \in 1..MaxSessions :
        /\ WF_vars(Timeout(p))
        /\ WF_vars(ReleaseAllList(p))
        /\ WF_vars(ReleaseAllPull(p))
        /\ WF_vars(ReleaseUpdate(p))

SpecLive == Init /\ [][NextLive]_vars /\ Scheduling

(***************************************************************************)
(* SpecParse: the parser applied to every bounded flag value.              *)
(***************************************************************************)
BotIdle == doc = [InitialDoc EXCEPT !.pokemon = <<>>] /\ task = [p \in 1..MaxSessions |-> IdleTask]

InitParse ==
    /\ text \in Texts
    /\ ops = Pending
    /\ BotIdle

Parse ==
    /\ ops = Pending
    /\ ops' = parse_numerical_flag(text)
    /\ UNCHANGED <<text, doc, task>>

NextParse == Parse

SpecParse == InitParse /\ [][NextParse]_vars

(***************************************************************************)
(* Properties.                                                             *)
(***************************************************************************)
Range(q) == {q[i] : i \in 1..Len(q)}

\* an entry releaseall is documented to spare, as the document stands
Protected(e) == e.favorite \/ e.number = doc.selected

\* the entries of the collection that are not protected
Unprotected(member) ==
    [member EXCEPT !.pokemon = SelectSeq(member.pokemon, LAMBDA e : ~Protected(e))]

\* C1: releaseall never removes an entry that is favorited or selected when
\* it is removed, and its prompt never counts an entry that is favorited or
\* selected when it is counted, whatever the flags and the interleaving.
C1_ProtectedNeverReleased ==
    [][\A p \in Procs : task[p].cmd = "releaseall" =>
        /\ (task[p].pc = "pull" /\ task'[p].pc = "done") =>
                \A e \in Range(doc.pokemon) : Protected(e) => e \in Range(doc'.pokemon)
        /\ (task[p].pc = "count" /\ task'[p].pc = "wait") =>
                task'[p].num <= fetch_pokemon_count(Unprotected(doc),
                                                    create_filter(task[p].flags).stages)
      ]_vars

\* the confirmation a waiting command expects (release takes "y" in either
\* letter case, releaseall the exact echo of its count)
Expected(t, m) ==
    IF t.cmd = "release" THEN m.text \in {"y", "Y"}
    ELSE m = Message("confirm release", t.num)

AbortMessages == {"Aborted.", "Time's up. Aborted."}

\* a step that leaves the document and every coroutine that does not wait as
\* they are: a message that is no command is such a step
Quiet == doc' = doc /\ \A q \in Procs : task[q].pc # "wait" => task'[q] = task[q]

\* C2: a release or releaseall whose wait times out, or whose first accepted
\* message is not the expected confirmation, ends with an abort message and
\* without a change of the member document; the command changes the document
\* only after the expected confirmation.
C2_AbortLeavesDocument ==
    [][/\ \A p \in Procs : task[p].cmd \in Waiting =>
            /\ (task'[p] # task[p] /\ doc' # doc) => task[p].pc \in {"confirmed", "pull"}
            /\ task'[p].pc = "confirmed" => Expected(task'[p], task'[p].msg)
            /\ task'[p].pc = "pull" => task[p].pc \in {"confirmed", "pull"}
            /\ task[p].pc = "wait" =>
                /\ task'[p].pc \in {"wait", "confirmed", "done"}
                /\ task'[p].pc = "done" =>
                        task'[p].sent \in AbortMessages /\ doc' = doc
                /\ Timeout(p) => task'[p].pc = "done" /\ task'[p].sent = "Time's up. Aborted."
       /\ Quiet => \A ch \in Channels, m \in Answers : Say("author", ch, m) =>
            \A p \in Procs :
                (task[p].pc = "wait" /\ ch = task[p].channel /\ ~Expected(task[p], m))
                    => task'[p].pc = "done" /\ task'[p].sent = "Aborted."
      ]_vars

\* C2 witness: a releaseall has aborted on a wrong echo and a release on a
\* timeout, the collection being as it was.
C2_Witness ==
    \E p, q \in Procs :
        /\ task[p].cmd = "releaseall" /\ task[p].pc = "done" /\ task[p].sent = "Aborted."
        /\ task[q].cmd = "release" /\ task[q].pc = "done"
        /\ task[q].sent = "Time's up. Aborted."
        /\ doc = InitialDoc

\* the count a releaseall would compute now
LiveCount(t) == fetch_pokemon_count(doc, t.aggregations)

\* p's prompt shows a count that is no longer the live one, and q's later
\* prompt for the same flags shows the live one
Stale(p, q) ==
    /\ task[p].cmd = "releaseall" /\ task[p].pc = "wait"
    /\ task[q].cmd = "releaseall" /\ task[q].pc = "wait"
    /\ task[p].flags = task[q].flags
    /\ task[q].num # task[p].num
    /\ LiveCount(task[p]) = task[q].num

\* C3 (as claimed): an echo of an earlier count is rejected once the live
\* count has changed and a new prompt shows the new count, also when the two
\* prompts belong to concurrent sessions.
C3_StaleEchoRejected ==
    [][\A p, q \in Procs : Stale(p, q) => task'[p].pc # "confirmed"]_vars

\* C3 (amended): an echo confirms a waiting releaseall only if it is exactly
\* "confirm release <num>" for the count of that session's own prompt; an echo
\* of another count ends the sessions it reaches with "Aborted.".
C3_EchoBoundToOwnPrompt ==
    [][/\ \A p \in Procs : (task[p].cmd = "releaseall" /\ task[p].pc = "wait") =>
            (task'[p].pc = "confirmed" =>
                task'[p].msg = Message("confirm release", task[p].num))
       /\ Quiet => \A ch \in Channels, m \in Echoes : Say("author", ch, m) =>
            \A p \in Procs :
                (task[p].cmd = "releaseall" /\ task[p].pc = "wait"
                    /\ ch = task[p].channel /\ m.n # task[p].num)
                    => task'[p].pc = "done" /\ task'[p].sent = "Aborted."
      ]_vars

\* C3 witness: a session confirmed by the echo of its own, stale count while
\* a second session waits on a prompt with the live count.
C3_Witness ==
    \E p, q \in Procs :
        /\ task[p].cmd = "releaseall" /\ task[p].pc = "confirmed"
        /\ task[p].msg = Message("confirm release", task[p].num)
        /\ task[q].cmd = "releaseall" /\ task[q].pc = "wait"
        /\ task[q].num # task[p].num
        /\ LiveCount(task[q]) = task[q].num

\* the parse the claim describes, digits being the decimal digits
ClaimedParse(t) ==
    IF Len(t) = 1 /\ IsDecimal(t[1]) THEN Ops(<<Str("="), t[1]>>)
    ELSE IF Len(t) = 1 /\ Len(t[1]) >= 2 /\ Str(t[1][1]) \in ComparisonOps
            /\ IsDecimal(Tail(t[1]))
        THEN Ops(<<Str(t[1][1]), Tail(t[1])>>)
    ELSE IF Len(t) = 2 /\ t[1] \in ComparisonOps /\ IsDecimal(t[2]) THEN Ops(t)
    ELSE None

\* C4: parse_numerical_flag yields = and d for a digit token d, the operator
\* and the operand for a token or a pair made of an operator and digits, and
\* rejects every other input without failing in another way; an accepted
\* operand is a non-negative base-10 integer.
C4_ParseAsClaimed == ops # Pending => ops = ClaimedParse(text)

(***************************************************************************)
(* create_filter and its callers (SpecFilter).                             *)
(***************************************************************************)
NumericalNames == Range(FILTER_BY_NUMERICAL)

Filtering(t) == t.cmd \in {"pokemon", "releaseall"} /\ t.pc \notin {"idle", "start"}

\* the stages create_filter returned to a command that is about to count:
\* both commands have added two stages of their own
Compiled(t) == SubSeq(t.aggregations, 1, Len(t.aggregations) - 2)

ValueFree(flags) ==
    \A f \in {"name", "level", "type"} \cup NumericalNames : ~IsGiven(flags, f)

BooleanNames == {"mythical", "legendary", "ub", "favorite"}

SetBooleans(flags) == {f \in BooleanNames \cap DOMAIN flags : flags[f]}

IsRarityStage(st) ==
    /\ st.op = "$match" /\ st.field = "pokemon.species_id" /\ st.cmp = "$in"
    /\ st.ids \in {list_mythical, list_legendary, list_ub}

IsFavoriteStage(st) == st.op = "$match" /\ st.field = "pokemon.favorite" /\ st.b

\* C5 (as claimed): with no value-bearing flag, create_filter is never
\* rejected and returns a list that is empty or holds rarity and type stages
\* only.
C5_ValueFreeRarityTypeOnly ==
    \A p \in Procs : (Filtering(task[p]) /\ ValueFree(task[p].flags)) =>
        /\ "fetch_member_info" \in task[p].queries
        /\ task[p].pc = "count" =>
                \A st \in Range(Compiled(task[p])) :
                    st.op = "$match" /\ st.field = "pokemon.species_id" /\ st.cmp = "$in"

\* C5 (amended): with no value-bearing flag, create_filter is never rejected
\* and returns one stage per boolean flag that is set: a rarity stage for
\* mythical, legendary and ub, and the favorite stage for favorite.
C5_ValueFreeBooleanStagesOnly ==
    \A p \in Procs : (Filtering(task[p]) /\ ValueFree(task[p].flags)) =>
        /\ "fetch_member_info" \in task[p].queries
        /\ task[p].pc = "count" =>
            /\ \A st \in Range(Compiled(task[p])) : IsRarityStage(st) \/ IsFavoriteStage(st)
            /\ Len(Compiled(task[p])) = Cardinality(SetBooleans(task[p].flags))
            /\ (\E st \in Range(Compiled(task[p])) : IsFavoriteStage(st))
                    <=> IsSet(task[p].flags, "favorite")

\* C5 witness: the favorite flag and a rarity flag, and the two stages
C5_Witness ==
    \E p \in Procs :
        /\ task[p].cmd = "pokemon" /\ task[p].pc = "count" /\ ValueFree(task[p].flags)
        /\ SetBooleans(task[p].flags) = {"mythical", "favorite"}
        /\ Len(Compiled(task[p])) = 2
        /\ IsFavoriteStage(Compiled(task[p])[2])

NameUnresolved(flags) == IsGiven(flags, "name") /\ flags["name"][1] \notin Range(SpeciesNames)

FailsToParse(flags) ==
    \E f \in NumericalNames : IsGiven(flags, f) /\ ClaimedParse(flags[f][1]) = None

\* C6: when the name is no species or a numerical flag that is given does
\* not parse, create_filter returns no stage list and the pokemon or
\* releaseall command ends without a query; otherwise create_filter returns a
\* stage list and the command goes on to read the member.
C6_RejectedCompileStopsCommand ==
    \A p \in Procs : Filtering(task[p]) =>
        IF NameUnresolved(task[p].flags) \/ FailsToParse(task[p].flags)
            THEN /\ create_filter(task[p].flags).tag # "List"
                 /\ task[p].pc = "done" /\ task[p].queries = {}
                 /\ task[p].aggregations = <<>>
            ELSE /\ create_filter(task[p].flags).tag = "List"
                 /\ "fetch_member_info" \in task[p].queries
                 /\ task[p].pc = "count" =>
                        Compiled(task[p]) = create_filter(task[p].flags).stages

\* C6 witness: a releaseall ended on a numerical flag that does not parse, a
\* valid name and a valid numerical flag having come before it
C6_Witness ==
    \E p \in Procs :
        /\ task[p].cmd = "releaseall" /\ task[p].pc = "done"
        /\ task[p].sent = "Couldn't parse" /\ task[p].queries = {}
        /\ task[p].flags["name"] = Some("mew")
        /\ IsGiven(task[p].flags, "hpiv")
        /\ ClaimedParse(task[p].flags["hpiv"][1]) # None
        /\ FailsToParse(task[p].flags)

IndexOf(f) == CHOOSE i \in 1..Len(FILTER_BY_NUMERICAL) : FILTER_BY_NUMERICAL[i] = f

\* the place of a stage in the order of the claim, 0 for a stage it does not
\* know
Rank(st) ==
    CASE st.field = "pokemon.species_id" /\ st.cmp = "$in" /\ st.ids = list_mythical -> 1
      [] st.field = "pokemon.species_id" /\ st.cmp = "$in" /\ st.ids = list_legendary -> 2
      [] st.field = "pokemon.species_id" /\ st.cmp = "$in" /\ st.ids = list_ub -> 3
      [] st.field = "pokemon.species_id" /\ st.cmp = "$in"
            /\ st.ids \notin {list_mythical, list_legendary, list_ub} -> 4
      [] st.field = "pokemon.favorite" -> 5
      [] st.field = "pokemon.species_id" /\ st.cmp = "$eq" -> 6
      [] st.field = "pokemon.level" -> 7
      [] st.field \in NumericalNames -> 7 + IndexOf(st.field)
      [] OTHER -> 0

ClaimedCmp(o) ==
    CASE o = Str("<") -> "$lt"
      [] o = Str("=") -> "$eq"
      [] o = Str(">") -> "$gt"

\* C7: a stage list of create_filter is in the order mythical, legendary, ub,
\* type, favorite, name, level, numerical flags; each numerical flag given
\* has exactly two stages, its computed field and next to it the match with
\* $lt for <, $eq for = and $gt for > on the integer of the operand.
C7_StageOrder ==
    \A p \in Procs : (Filtering(task[p]) /\ task[p].pc = "count") =>
        LET st == Compiled(task[p])
            flags == task[p].flags
        IN  /\ \A i \in 1..Len(st) : Rank(st[i]) > 0
            /\ \A i, j \in 1..Len(st) : i < j =>
                \/ Rank(st[i]) < Rank(st[j])
                \/ Rank(st[i]) = Rank(st[j]) /\ Rank(st[i]) > 7 /\ j = i + 1
            /\ \A f \in NumericalNames :
                IF IsGiven(flags, f)
                    THEN /\ Cardinality({i \in 1..Len(st) : st[i].field = f}) = 2
                         /\ \E i \in 1..(Len(st) - 1) :
                                /\ st[i].op = "$addFields" /\ st[i].field = f
                                /\ st[i + 1].op = "$match" /\ st[i + 1].field = f
                                /\ st[i + 1].cmp = ClaimedCmp(ClaimedParse(flags[f][1]).op)
                                /\ st[i + 1].n = ToInt(ClaimedParse(flags[f][1]).operand)
                    ELSE \A i \in 1..Len(st) : st[i].field # f

\* C7 witness: a list with a rarity, the type, the favorite, the name and the
\* level stage and the stages of a < and of a > comparison
C7_Witness ==
    \E p \in Procs :
        /\ task[p].cmd = "pokemon" /\ task[p].pc = "count"
        /\ SetBooleans(task[p].flags) = {"ub", "favorite"}
        /\ IsGiven(task[p].flags, "type") /\ IsGiven(task[p].flags, "name")
        /\ IsGiven(task[p].flags, "level")
        /\ task[p].flags["hpiv"] = Some(<<Tok2("<", "1")>>)
        /\ task[p].flags["atkiv"] = Some(<<Str(">"), Str("1")>>)
        /\ Len(Compiled(task[p])) = 9

Compare(o, a, b) ==
    CASE o = Str("<") -> a < b
      [] o = Str("=") -> a = b
      [] o = Str(">") -> a > b

\* the entry satisfies every predicate that the flags set
Satisfies(flags, e) ==
    /\ IsSet(flags, "mythical") => e.species_id \in list_mythical
    /\ IsSet(flags, "legendary") => e.species_id \in list_legendary
    /\ IsSet(flags, "ub") => e.species_id \in list_ub
    /\ IsGiven(flags, "type") => e.species_id \in list_type(flags["type"][1])
    /\ IsSet(flags, "favorite") => e.favorite
    /\ IsGiven(flags, "name") => SpeciesNames[e.species_id] = flags["name"][1]
    /\ IsGiven(flags, "level") => e.level = flags["level"][1]
    /\ \A f \in NumericalNames : IsGiven(flags, f) =>
            Compare(ClaimedParse(flags[f][1]).op, Expr(f, e),
                    ToInt(ClaimedParse(flags[f][1]).operand))

Selected(flags) == {e.number : e \in {x \in Range(doc.pokemon) : Satisfies(flags, x)}}

MythicalLevel50(flags) ==
    /\ SetBooleans(flags) = {"mythical"} /\ flags["level"] = Some(50)
    /\ \A f \in {"name", "type"} \cup NumericalNames : ~IsGiven(flags, f)

\* C9: the pokemon command counts and shows exactly the entries that satisfy
\* every predicate set (several rarity flags: the intersection of the
\* classes); mythical and level 50 on a mythical entry of level 50 and a
\* mythical entry of level 10 count 1 and show that entry on page 0.
C9_ConjunctionOfPredicates ==
    \A p \in Procs : (Filtering(task[p]) /\ task[p].cmd = "pokemon") =>
        LET t == task[p] IN
        /\ t.pc \in {"render", "paging"} => t.num = Cardinality(Selected(t.flags))
        /\ t.pc = "paging" => t.pidx = 0 /\ Range(t.page) = Selected(t.flags)
        /\ (t.pc = "done" /\ "fetch_pokemon_count" \in t.queries) => Selected(t.flags) = {}
        /\ (t.pc = "paging" /\ MythicalLevel50(t.flags) /\ doc.pokemon = SubSeq(Dex, 1, 2))
                => t.num = 1 /\ t.page = <<1>>

\* C9 witness: mythical and level 50 on the two mythical entries, the count 1
\* and the entry of level 50 on page 0
C9_Witness ==
    \E p \in Procs :
        /\ task[p].cmd = "pokemon" /\ task[p].pc = "paging"
        /\ MythicalLevel50(task[p].flags) /\ doc.pokemon = SubSeq(Dex, 1, 2)
        /\ task[p].num = 1 /\ task[p].pidx = 0 /\ task[p].page = <<1>>

(***************************************************************************)
(* The page of the pokemon command (SpecPage).                             *)
(***************************************************************************)
Distance(a, b) == IF a < b THEN b - a ELSE a - b

Nearest(i, n) == CHOOSE j \in 0..(n - 1) : \A k \in 0..(n - 1) : Distance(j, i) <= Distance(k, i)

Window(pidx) ==
    {k \in 1..Len(doc.pokemon) : pidx * PageSize < k /\ k <= (pidx + 1) * PageSize}

\* C10 (as claimed): whatever page the pokemon command is asked for, a page
\* number below 1 or above the last page also, a page controller shows the
\* page whose index is the boundary nearest to page - 1.
C10_ClampsEveryPage ==
    \A p \in Procs :
        (task[p].cmd = "pokemon" /\ task[p].pc \notin {"idle", "start", "count"}
            /\ Len(doc.pokemon) > 0) =>
        /\ task[p].pc \in {"render", "paging"}
        /\ task[p].pidx = Nearest(task[p].flags.page - 1, task[p].num_pages)

\* C10 (amended): a page number above the last page gives the index of the
\* last page and a page number within the pages gives page - 1; a page number
\* below 1 is refused with "Page must be positive!" before any query, and no
\* page controller is made.
C10_ClampsAboveRefusesBelow ==
    \A p \in Procs :
        (task[p].cmd = "pokemon" /\ task[p].pc \notin {"idle", "start"}) =>
        LET t == task[p] IN
        IF t.flags.page < 1
            THEN t.pc = "done" /\ t.sent = "Page must be positive!" /\ t.queries = {}
            ELSE /\ t.pc \in {"render", "paging"} =>
                    /\ t.num_pages = Ceil(Len(doc.pokemon), PageSize)
                    /\ t.pidx = Nearest(t.flags.page - 1, t.num_pages)
                 /\ t.pc = "paging" => Range(t.page) = Window(t.pidx)

\* C10 witness: a page number above the last of several pages, and the last
\* page shown
C10_Witness ==
    \E p \in Procs :
        /\ task[p].cmd = "pokemon" /\ task[p].pc = "paging"
        /\ task[p].num_pages >= 2 /\ task[p].flags.page > task[p].num_pages
        /\ task[p].pidx = task[p].num_pages - 1
        /\ task[p].page # <<>>

(***************************************************************************)
(* The page session (SpecTurn, SpecSession).                               *)
(***************************************************************************)
HasPager(t) == t.cmd \in Paging /\ t.pc \in {"render", "paging", "terminated"}

InRange(t) == 0 <= t.pidx /\ t.pidx <= t.num_pages - 1

\* C11: the index of a page session is in [0, num_pages - 1] after every
\* step, whatever first, previous, next, last and jump inputs came; an input
\* that asks for an index below 0 or above num_pages - 1 leaves the session
\* as it is, index included, and the session goes on.
C11_IndexStaysInRange ==
    [][/\ \A p \in Procs : HasPager(task'[p]) => InRange(task'[p])
       /\ \A ch \in Channels, in \in Inputs : Press("author", ch, in) =>
            \A p \in Procs :
                (HasPager(task[p]) /\ in.kind # "stop"
                    /\ ~(Target(in, task[p].pidx, task[p].num_pages)
                            \in 0..(task[p].num_pages - 1)))
                    => task'[p] = task[p]
      ]_vars

\* C11 witness: a session of three pages that inputs have moved from its
\* first index to another one, the page of that index shown
C11_Witness ==
    \E p \in Procs :
        /\ task[p].cmd = "pokemon" /\ task[p].pc = "paging"
        /\ task[p].num_pages = 3
        /\ task[p].pidx = 1 /\ task[p].flags.page = 1
        /\ task[p].page # <<>>

\* C12: every page controller that pokemon (with ceil(num / 20) pages) or
\* info (with num pages) constructs has at least one page; a command whose
\* count finds no entry ends before it constructs one.
C12_AtLeastOnePage ==
    \A p \in Procs :
        /\ HasPager(task[p]) => task[p].num >= 1 /\ task[p].num_pages >= 1
        /\ (task[p].cmd \in Paging /\ task[p].pc = "done"
                /\ task[p].sent \in {"Found no pokemon matching this search.", "IndexError"})
            => task[p].num_pages = IdleTask.num_pages

\* C12 witness: a pokemon session whose filter matched one entry and an info
\* session, both with their page controllers
C12_Witness ==
    \E p, q \in Procs :
        /\ task[p].cmd = "pokemon" /\ HasPager(task[p])
        /\ task[p].num = 1 /\ task[p].num_pages = 1
        /\ task[q].cmd = "info" /\ HasPager(task[q]) /\ task[q].num_pages = 2

\* C13: Terminated is absorbing: once the idle timeout or the termination
\* input has ended a page session, no step changes the session any more: its
\* state, its index and the page it shows stay, and the page producer does
\* not run again (no further query, pc never "render").
C13_TerminatedAbsorbing ==
    [][\A p \in Procs : task[p].pc = "terminated" => task'[p] = task[p]]_vars

\* C13 witness: a terminated session of several pages that shows a page, at
\* an index from which inputs could go both ways
C13_Witness ==
    \E p \in Procs :
        /\ task[p].pc = "terminated" /\ task[p].cmd = "pokemon"
        /\ task[p].num_pages = 3 /\ task[p].pidx = 1
        /\ task[p].page # <<>>

\* the sessions that wait for an input: a pending confirmation of release or
\* releaseall, and a page session
Pending14(t) == t.pc = "wait" \/ HasPager(t)

Foreign(t, author, ch) == author # "author" \/ ch # t.channel

\* C14: a pending confirmation or a page session reacts only to the invoking
\* user in the invoking channel: a message or a navigation input from
\* another user, or from the same user in another channel (a command
\* included), leaves the session as it is: it neither confirms nor aborts
\* a pending release or releaseall and does not turn a page.
C14_ForeignInputIgnored ==
    [][\A p \in Procs : (Pending14(task[p]) /\ task'[p] # task[p]) =>
        /\ \A author \in Authors, ch \in Channels :
            Foreign(task[p], author, ch) =>
                /\ \A m \in Answers : ~Say(author, ch, m)
                /\ \A in \in Inputs : ~Press(author, ch, in)
        /\ \A q \in Procs, ch \in Channels, a \in {"1", "2", "LATEST", "all"} :
            ch # task[p].channel => ~Invoke(q, "release", ch, NoFlags, a)
      ]_vars

\* C14 witness: a release and a releaseall wait for their confirmations in
\* different channels
C14_Witness ==
    \E p, q \in Procs :
        /\ task[p].pc = "wait" /\ task[p].cmd = "release"
        /\ task[q].pc = "wait" /\ task[q].cmd = "releaseall"
        /\ task[p].channel # task[q].channel

\* C14 witness of the page session: a page session and a pending release in
\* different channels
C14_PageWitness ==
    \E p, q \in Procs :
        /\ task[p].pc = "paging" /\ task[p].num_pages = 2
        /\ task[q].pc = "wait" /\ task[q].cmd = "release"
        /\ task[p].channel # task[q].channel

Completed == {"You released your pokemon.", "You have released num pokemon."}

\* C15: every release and releaseall that has sent its prompt and waits
\* eventually ends, aborted or completed, whether or not anybody sends a
\* message; and the expiry of the wait ends the command with the abort
\* message, the document untouched.
C15_PromptedCommandEnds ==
    /\ \A p \in 1..MaxSessions :
        (task[p].pc = "wait") ~>
            (task[p].pc = "done" /\ task[p].sent \in AbortMessages \cup Completed)
    /\ [][\A p \in Procs : Timeout(p) =>
            /\ task'[p].pc = "done" /\ task'[p].sent = "Time's up. Aborted."
            /\ doc' = doc]_vars

\* C15 witness: one command ended by the expiry of its wait, one completed
C15_Witness ==
    \E p, q \in Procs :
        /\ task[p].pc = "done" /\ task[p].cmd \in Waiting
        /\ task[p].sent = "Time's up. Aborted."
        /\ task[q].pc = "done" /\ task[q].sent \in Completed

\* the step in which the producer of p's pokemon session answers
Produces(p) ==
    task[p].cmd = "pokemon" /\ task[p].pc = "render" /\ task'[p].pc # "render"

\* C16: the producer of the pokemon command runs for indices in
\* [0, num_pages - 1] only; it finds no entry there only if the matching
\* entries are no longer those that were counted; when they still are, the
\* page has between 1 and 20 entries; and when it finds none, the session
\* goes on with the empty-state message.
C16_EmptyPageOnlyAfterChange ==
    [][\A p \in Procs : Produces(p) =>
        LET live == fetch_pokemon_count(doc, task[p].aggregations) IN
        /\ InRange(task[p])
        /\ task'[p].page = <<>> => live < task[p].num
        /\ live = task[p].num =>
                Len(task'[p].page) >= 1 /\ Len(task'[p].page) <= PageSize
        /\ task'[p].page = <<>> =>
                /\ task'[p].pc = "paging"
                /\ task'[p].sent = "There are no pokemon on this page!"
      ]_vars

\* C16 witness: the second of two pages was asked for after a release took
\* the entry it held, and the session shows the empty-state message
C16_Witness ==
    \E p \in Procs :
        /\ task[p].cmd = "pokemon" /\ task[p].pc = "paging"
        /\ task[p].num = PageSize + 1 /\ task[p].num_pages = 2 /\ task[p].pidx = 1
        /\ task[p].page = <<>>
        /\ task[p].sent = "There are no pokemon on this page!"
        /\ Len(doc.pokemon) = PageSize

\* C16 witness of the full page: twenty entries on the first of two pages
C16_FullPageWitness ==
    \E p \in Procs :
        /\ task[p].cmd = "pokemon" /\ task[p].pc = "paging"
        /\ task[p].num_pages = 2 /\ task[p].pidx = 0
        /\ Len(task[p].page) = PageSize

(***************************************************************************)
(* The removals of release and releaseall under interleaving (Spec).       *)
(***************************************************************************)
\* the step in which p's releaseall removes what it listed
Pulls(p) == task[p].cmd = "releaseall" /\ task[p].pc = "pull" /\ task'[p].pc = "done"

\* the step in which p's confirmed release removes its entry
Releases(p) == task[p].cmd = "release" /\ task[p].pc = "confirmed" /\ task'[p].pc = "done"

\* C17: a confirmed releaseall removes as many entries as its prompt showed
\* and its completion message reports (num), whatever other commands of the
\* user ran between its count and its removal.
C17_RemovesTheCountShown ==
    [][\A p \in Procs : Pulls(p) =>
            Len(doc.pokemon) - Len(doc'.pokemon) = task[p].num]_vars

\* the entry that is selected as the document stands: the one whose number
\* is stored, or the latest one when "latest" was selected (-1 is stored)
IsSelected(e) ==
    \/ e.number = doc.selected
    \/ doc.selected = -1 /\ e = doc.pokemon[Len(doc.pokemon)]

\* C18: release never removes an entry that is selected (by its number or
\* as the latest) or favorited when it is removed, whatever select and
\* favorite commands ran during the release.
C18_ReleaseSparesProtected ==
    [][\A p \in Procs : Releases(p) =>
            \A e \in Range(doc.pokemon) :
                (IsSelected(e) \/ e.favorite) => e \in Range(doc'.pokemon)]_vars

\* C18 with the stored number alone: the entry whose number is selected, or
\* a favorited one, is never removed by release
C18_ReleaseSparesProtectedByNumber ==
    [][\A p \in Procs : Releases(p) =>
            \A e \in Range(doc.pokemon) : Protected(e) => e \in Range(doc'.pokemon)]_vars

\* C19: a release confirmed with "y" removes the entry its prompt named,
\* that entry alone, and changes nothing else of the document, for a number
\* and for "latest".
C19_RemovesTheEntryNamed ==
    [][\A p \in Procs : Releases(p) =>
            LET e == task[p].pokemon[1] IN
            /\ e \in Range(doc.pokemon) => e \notin Range(doc'.pokemon)
            /\ doc' = Pull(doc, {e.number})]_vars

\* C20: the selected value of a started member is the number of an entry of
\* the collection, in every reachable state.
C20_SelectedInCollection ==
    doc.exists => \E e \in Range(doc.pokemon) : e.number = doc.selected

\* C20 with -1 read as the latest entry
C20_SelectedOrLatestInCollection ==
    doc.exists => \E e \in Range(doc.pokemon) : IsSelected(e)

(***************************************************************************)
(* The redeem balance and the entry numbers under interleaving (Spec).     *)
(***************************************************************************)
\* the entries redeem has granted: each one incremented next_id
Granted == doc.next_id - InitialDoc.next_id

\* C21: the redeem balance is never negative, and redeem never grants more
\* entries than the balance the member started with, whatever the
\* interleaving of the member's redeem commands.
C21_BalanceNeverNegative ==
    doc.redeems >= 0 /\ Granted <= InitialDoc.redeems

\* C22: the numbers of the entries of the collection are pairwise distinct
\* and all smaller than next_id, in every reachable state.
C22_NumbersDistinctBelowNextId ==
    /\ \A i, j \in 1..Len(doc.pokemon) :
            i # j => doc.pokemon[i].number # doc.pokemon[j].number
    /\ \A i \in 1..Len(doc.pokemon) : doc.pokemon[i].number < doc.next_id

====
